---------------------------- MODULE Spec2Model ----------------------------
(***************************************************************************)
(* Model of the Django application in app/urls.py and app/views.py:        *)
(* a routing table with two routes, the page view `home` and the list API  *)
(* view `ImageListAPIView`, both reading the Image table.                  *)
(*                                                                         *)
(* The application runs in several worker processes (gunicorn).  Each      *)
(* process imports app/views.py once, so each holds its own class          *)
(* attribute ImageListAPIView.queryset.  A process serves one request at a *)
(* time; a view issues one SELECT, which the database answers atomically,  *)
(* so serving a request is one step and concurrent requests are the        *)
(* interleavings of these steps with each other and with writers to the    *)
(* table that are outside this code (admin, shell, migrations).            *)
(***************************************************************************)
EXTENDS Integers, Sequences, FiniteSets

VARIABLES
    store,      \* the Image table: the set of primary keys of the stored rows
    queryset,   \* per process: the class attribute ImageListAPIView.queryset
    resp,       \* the request served last, with its response
    prev        \* the request served before that one, with its response

vars == <<store, queryset, resp, prev>>

\* Bounds of the model.
MaxId == 2          \* primary keys are 1..MaxId
NumProcs == 2       \* worker processes

Ids == 1..MaxId
Procs == 1..NumProcs

Methods == {"GET", "POST", "PUT", "PATCH", "DELETE"}
WriteMethods == {"POST", "PUT", "PATCH", "DELETE"}

\* Request paths below the site root, as sequences of path tokens:
\* "", "images/", "images" and "images/1/".
RootPath == <<>>
ImagesPath == <<"images", "/">>
Paths == {RootPath, ImagesPath, <<"images">>, <<"images", "/", "1", "/">>}

---------------------------------------------------------------------------
(* The ORM: Image.objects.all()                                            *)

\* The rows of a table content in the order a full scan returns them
\* (primary-key order), each row once.
RECURSIVE Rows(_)
Rows(S) ==
    IF S = {} THEN <<>>
    ELSE LET m == CHOOSE x \in S : \A y \in S : x <= y
         IN  <<m>> \o Rows(S \ {m})

Range(s) == {s[i] : i \in 1..Len(s)}

Min(a, b) == IF a <= b THEN a ELSE b

\* A lazy QuerySet that has not been evaluated: its result cache is empty.
LazyQuerySet == [kind |-> "QuerySet", filled |-> FALSE, rows |-> <<>>]

---------------------------------------------------------------------------
(* app/urls.py                                                             *)

urlpatterns ==
    << [route |-> RootPath,   view |-> "home",             name |-> "home"],
       [route |-> ImagesPath, view |-> "ImageListAPIView", name |-> "images"] >>

\* Faulty variant: a route matches every path it is a prefix of (re_path without the
\* end anchor, or include() in place of path()).
RouteMatchesPrefix(route, p) ==
    /\ Len(route) <= Len(p)
    /\ SubSeq(p, 1, Len(route)) = route

\* path(route, view): the route matches the whole path, nothing less.
RouteMatches(route, p) == p = route

\* The resolver tries the patterns in order; the first match wins.
Resolve(p) ==
    LET hits == {i \in 1..Len(urlpatterns) : RouteMatches(urlpatterns[i].route, p)}
    IN  IF hits = {} THEN "Resolver404"
        ELSE urlpatterns[CHOOSE i \in hits : \A j \in hits : i <= j].view

---------------------------------------------------------------------------
(* app/views.py: home                                                      *)

\* A view's outcome: the response, whether a query reached the database,
\* the table content it leaves and the class attribute it leaves.
Outcome(status, template, context, body, read, db, qs) ==
    [status |-> status, template |-> template, context |-> context,
     body |-> body, read |-> read, db |-> db, queryset |-> qs]

\* Faulty variant: Image.objects.all()[:1] in place of Image.objects.all().
home_first_only(method, st) ==
    Outcome(200, "index.html", SubSeq(Rows(st), 1, Min(1, Len(Rows(st)))),
            <<>>, TRUE, st, LazyQuerySet)

\* Faulty variant: get_list_or_404(Image) in place of Image.objects.all().
home_list_or_404(method, st) ==
    IF st = {}
    THEN Outcome(404, "", <<>>, <<>>, TRUE, st, LazyQuerySet)
    ELSE Outcome(200, "index.html", Rows(st), <<>>, TRUE, st, LazyQuerySet)

\* Faulty variant: the view decorated with require_GET.
home_require_GET(method, st) ==
    IF method = "GET"
    THEN Outcome(200, "index.html", Rows(st), <<>>, TRUE, st, LazyQuerySet)
    ELSE Outcome(405, "", <<>>, <<>>, FALSE, st, LazyQuerySet)

\* home(request): a new QuerySet over all rows, evaluated while index.html
\* is rendered with it under the key "images".  The request is not looked at.
home(method, st) ==
    Outcome(200, "index.html", Rows(st), <<>>, TRUE, st, LazyQuerySet)

---------------------------------------------------------------------------
(* app/views.py: ImageListAPIView(ListAPIView)                             *)

\* Faulty variant: queryset = list(Image.objects.all()), evaluated at import.
queryset_list_at_import(st) ==
    [kind |-> "list", filled |-> TRUE, rows |-> Rows(st)]

\* queryset = Image.objects.all(), built when the class body runs at import:
\* lazy, nothing is fetched.
queryset_at_import(st) == LazyQuerySet

\* Faulty variant: queryset = Image.objects.filter(pk__gt=1).
queryset_rows_filtered(st) == Rows({i \in st : i > 1})

\* The rows the class's queryset selects when it is evaluated: all of them.
queryset_rows(st) == Rows(st)

\* Faulty variant: the class attribute is used as it is, without queryset.all().
get_queryset_no_clone(clsqs) ==
    [kind |-> clsqs.kind, filled |-> clsqs.filled, rows |-> clsqs.rows,
     shared |-> TRUE]

\* GenericAPIView.get_queryset: a QuerySet is re-made with .all() on every
\* request, which gives a new object with an empty result cache; anything
\* else (a list) is the class attribute itself.
get_queryset(clsqs) ==
    IF clsqs.kind = "QuerySet"
    THEN [kind |-> "QuerySet", filled |-> FALSE, rows |-> <<>>, shared |-> FALSE]
    ELSE [kind |-> clsqs.kind, filled |-> clsqs.filled, rows |-> clsqs.rows,
          shared |-> TRUE]

\* Faulty variant: pagination_class set, with a page size of 1.
paginate_queryset_page1(rows) == SubSeq(rows, 1, Min(1, Len(rows)))

\* The view sets no pagination_class: the whole list is one page.
paginate_queryset(rows) == rows

\* ImageSerializer: one JSON object per record, carrying its identifier.
ImageSerializer(row) == [id |-> row]

\* ListModelMixin.list: evaluate the queryset, serialize every row.
list(clsqs, st) ==
    LET q    == get_queryset(clsqs)
        rows == IF q.filled THEN q.rows ELSE queryset_rows(st)
        page == paginate_queryset(rows)
        after == IF q.shared
                 THEN [kind |-> clsqs.kind, filled |-> TRUE, rows |-> rows]
                 ELSE clsqs
    IN  Outcome(200, "", <<>>, [i \in 1..Len(page) |-> ImageSerializer(page[i])],
                ~q.filled, st, after)

\* Faulty variant: a method without a handler falls through to the list handler.
http_method_falls_to_list(clsqs, st) == list(clsqs, st)

\* APIView.http_method_not_allowed: 405, nothing read, nothing written.
http_method_not_allowed(clsqs, st) ==
    Outcome(405, "", <<>>, <<>>, FALSE, st, clsqs)

\* Faulty variant: the view derives from ListCreateAPIView, so POST creates a row.
ListCreateAPIView(method, clsqs, st) ==
    IF method = "GET" THEN list(clsqs, st)
    ELSE IF method = "POST" /\ Ids \ st # {}
         THEN Outcome(201, "", <<>>, <<>>, FALSE,
                      st \cup {CHOOSE i \in Ids \ st : \A j \in Ids \ st : i <= j},
                      clsqs)
         ELSE http_method_not_allowed(clsqs, st)

\* APIView.dispatch on a ListAPIView: the class defines the handler `get`
\* only; every other method of the model is answered by
\* http_method_not_allowed.
ImageListAPIView(method, clsqs, st) ==
    IF method = "GET" THEN list(clsqs, st)
    ELSE http_method_not_allowed(clsqs, st)

---------------------------------------------------------------------------
(* Requests and responses                                                  *)

NoResp ==
    [proc |-> 0, method |-> "", path |-> <<>>, view |-> "", status |-> 0,
     template |-> "", context |-> <<>>, body |-> <<>>, observed |-> {},
     read |-> FALSE, wrote |-> FALSE]

\* The record of a served request.  proc is the process whose class
\* attribute the view used (0 for home and for an unrouted request, which
\* use no per-process state and are served alike by every process);
\* observed is the table content at the time a view answered successfully
\* ({} for a rejected request); wrote tells whether serving changed the
\* table.
Served(w, m, p, view, r, st) ==
    [proc |-> w, method |-> m, path |-> p, view |-> view, status |-> r.status,
     template |-> r.template, context |-> r.context, body |-> r.body,
     observed |-> IF r.status = 200 THEN st ELSE {},
     read |-> r.read, wrote |-> r.db # st]

Init ==
    /\ store \in SUBSET Ids
    /\ queryset = [w \in Procs |-> queryset_at_import(store)]
    /\ resp = NoResp
    /\ prev = NoResp

\* A process serves a request whose path resolves to home.
Home(m, p) ==
    /\ Resolve(p) = "home"
    /\ LET r == home(m, store)
       IN  /\ resp' = Served(0, m, p, "home", r, store)
           /\ store' = r.db
    /\ prev' = resp
    /\ UNCHANGED queryset

\* Process w serves a request whose path resolves to ImageListAPIView.
ImageList(w, m, p) ==
    /\ Resolve(p) = "ImageListAPIView"
    /\ LET r == ImageListAPIView(m, queryset[w], store)
       IN  /\ resp' = Served(w, m, p, "ImageListAPIView", r, store)
           /\ store' = r.db
           /\ queryset' = [queryset EXCEPT ![w] = r.queryset]
    /\ prev' = resp

\* A process serves a request whose path no route matches: 404, no view runs.
NotFound(m, p) ==
    /\ Resolve(p) = "Resolver404"
    /\ resp' = Served(0, m, p, "",
                      Outcome(404, "", <<>>, <<>>, FALSE, store, LazyQuerySet),
                      store)
    /\ prev' = resp
    /\ UNCHANGED <<store, queryset>>

\* A writer outside this code adds a row.
Insert(i) ==
    /\ i \notin store
    /\ store' = store \cup {i}
    /\ UNCHANGED <<queryset, resp, prev>>

\* A writer outside this code removes a row.
Delete(i) ==
    /\ i \in store
    /\ store' = store \ {i}
    /\ UNCHANGED <<queryset, resp, prev>>

Serve ==
    \E m \in Methods, p \in Paths :
        \/ Home(m, p)
        \/ NotFound(m, p)
        \/ \E w \in Procs : ImageList(w, m, p)

Next ==
    \/ \E m \in Methods, p \in Paths : Home(m, p)
    \/ \E w \in Procs, m \in Methods, p \in Paths : ImageList(w, m, p)
    \/ \E m \in Methods, p \in Paths : NotFound(m, p)
    \/ \E i \in Ids : Insert(i)
    \/ \E i \in Ids : Delete(i)

Spec == Init /\ [][Next]_vars

TypeOK ==
    /\ store \subseteq Ids
    /\ \A w \in Procs : queryset[w].filled \in BOOLEAN
    /\ resp.status \in {0, 200, 201, 404, 405}
    /\ prev.status \in {0, 200, 201, 404, 405}

---------------------------------------------------------------------------
(* Properties                                                              *)

WasServed(r) == r.status # 0

BodyIds(r) == {r.body[i].id : i \in 1..Len(r.body)}

\* C1: a GET request for "/" is routed to home and answered 200 with an
\* "images" context that holds exactly the rows stored at that time: every
\* stored row, none twice, nothing that is not stored.
C1_HomeGetListsStoredImages ==
    (WasServed(resp) /\ resp.method = "GET" /\ resp.path = RootPath) =>
        /\ resp.view = "home"
        /\ resp.status = 200
        /\ Range(resp.context) = resp.observed
        /\ Len(resp.context) = Cardinality(resp.observed)

C1_Witness ==
    /\ resp.method = "GET" /\ resp.path = RootPath /\ resp.status = 200
    /\ Cardinality(resp.observed) >= 2
    /\ Range(resp.context) = resp.observed

\* C2: a GET request for "/images/" is routed to ImageListAPIView and
\* answered 200 with a JSON array that has one element per row stored at
\* that time: nothing is filtered out and no page cuts the list short.
C2_ImageListLengthIsCount ==
    (WasServed(resp) /\ resp.method = "GET" /\ resp.path = ImagesPath) =>
        /\ resp.view = "ImageListAPIView"
        /\ resp.status = 200
        /\ Len(resp.body) = Cardinality(resp.observed)

C2_Witness ==
    /\ resp.method = "GET" /\ resp.path = ImagesPath /\ resp.status = 200
    /\ Cardinality(resp.observed) >= 2
    /\ Len(resp.body) = Cardinality(resp.observed)

\* C3: serving a request, to whichever path and however often, leaves the
\* Image table as it was: no step of a handler creates, changes or deletes
\* a row.
\* (Every step either leaves the table alone or is not a step of Serve.)
C3_ServingLeavesStoreUnchanged == [][store' = store \/ ~Serve]_vars

C3_Witness ==
    /\ resp.status = 200 /\ resp.read /\ ~resp.wrote
    /\ prev.status = 200 /\ prev.read /\ ~prev.wrote
    /\ resp.view # prev.view
    /\ store # {}
    /\ prev.observed = store /\ resp.observed = store

\* C4: with no row stored, GET "/" is answered 200 with an empty "images"
\* context and GET "/images/" is answered 200 with the empty JSON array;
\* neither ends in an error.
C4_EmptyStoreGivesEmptyLists ==
    ( /\ WasServed(resp) /\ resp.method = "GET"
      /\ resp.path \in {RootPath, ImagesPath}
      /\ resp.observed = {} ) =>
        /\ resp.status = 200
        /\ resp.read
        /\ resp.context = <<>>
        /\ resp.body = <<>>

C4_Witness ==
    /\ resp.method = "GET" /\ resp.path = RootPath
    /\ prev.method = "GET" /\ prev.path = ImagesPath
    /\ resp.status = 200 /\ prev.status = 200
    /\ resp.read /\ prev.read
    /\ store = {} /\ resp.observed = {} /\ prev.observed = {}
    /\ resp.context = <<>> /\ prev.body = <<>>

\* C5: a request for "/images/" with POST, PUT, PATCH or DELETE is rejected:
\* it is never answered with success and it creates, updates or deletes no
\* row.
C5_ImageListRejectsWrites ==
    (WasServed(resp) /\ resp.path = ImagesPath /\ resp.method \in WriteMethods) =>
        /\ resp.status = 405
        /\ ~resp.wrote
        /\ ~resp.read
        /\ resp.body = <<>>

C5_Witness ==
    /\ resp.path = ImagesPath /\ resp.method = "POST" /\ resp.status = 405
    /\ prev.path = ImagesPath /\ prev.method = "DELETE" /\ prev.status = 405
    /\ store # {} /\ store # Ids

\* C6: the routing table has exactly two routes, "" to home and "images/"
\* to ImageListAPIView; a request for any other path reaches neither view
\* and reads no row.
C6_OnlyTwoRoutes ==
    /\ Len(urlpatterns) = 2
    /\ urlpatterns[1].route = RootPath /\ urlpatterns[1].view = "home"
    /\ urlpatterns[2].route = ImagesPath
    /\ urlpatterns[2].view = "ImageListAPIView"
    /\ WasServed(resp) =>
        /\ resp.view = "home" <=> resp.path = RootPath
        /\ resp.view = "ImageListAPIView" <=> resp.path = ImagesPath
        /\ resp.path \notin {RootPath, ImagesPath} =>
              /\ resp.view = ""
              /\ ~resp.read
              /\ resp.context = <<>>
              /\ resp.body = <<>>

C6_Witness ==
    /\ resp.path = <<"images", "/", "1", "/">> /\ resp.method = "GET"
    /\ prev.path = <<"images">> /\ prev.method = "GET"
    /\ resp.view = "" /\ prev.view = ""
    /\ ~resp.read /\ ~prev.read
    /\ store # {}

\* C7: two requests with the same method to the same path that find the
\* same rows stored get equal responses, whichever process serves each and
\* whatever was served before.
SameRequestSameStore(a, b) ==
    /\ WasServed(a) /\ WasServed(b)
    /\ a.method = b.method
    /\ a.path = b.path
    /\ a.observed = b.observed

C7_ResponseDependsOnStoreOnly ==
    SameRequestSameStore(resp, prev) =>
        /\ resp.status = prev.status
        /\ resp.template = prev.template
        /\ resp.context = prev.context
        /\ resp.body = prev.body

C7_Witness ==
    /\ SameRequestSameStore(resp, prev)
    /\ resp.view = "ImageListAPIView" /\ resp.status = 200
    /\ resp.proc # prev.proc
    /\ resp.observed # {}
    /\ resp.body = prev.body

\* C8: the page and the API present the same rows: when a request to "/"
\* and a request to "/images/" find the same rows stored, the rows in the
\* "images" context are the rows in the JSON array.
PageAndApiAgree(a, b) ==
    ( /\ a.view = "home" /\ a.status = 200
      /\ b.view = "ImageListAPIView" /\ b.status = 200
      /\ a.observed = b.observed ) =>
        Range(a.context) = BodyIds(b)

C8_PageAndApiAgree == PageAndApiAgree(resp, prev) /\ PageAndApiAgree(prev, resp)

C8_Witness ==
    /\ resp.view = "home" /\ resp.status = 200
    /\ prev.view = "ImageListAPIView" /\ prev.status = 200
    /\ resp.observed = prev.observed
    /\ Cardinality(resp.observed) >= 2
    /\ Range(resp.context) = BodyIds(prev)

\* C9: the list API serves no stale snapshot: whatever insertions, deletions
\* and requests came before, each GET "/images/" is answered with the rows
\* stored when it is served, not with those of import time or of an earlier
\* request.
C9_ImageListNeverStale ==
    (WasServed(resp) /\ resp.view = "ImageListAPIView" /\ resp.method = "GET") =>
        /\ resp.status = 200
        /\ BodyIds(resp) = resp.observed

C9_Witness ==
    /\ resp.view = "ImageListAPIView" /\ resp.method = "GET" /\ resp.status = 200
    /\ prev.view = "ImageListAPIView" /\ prev.method = "GET" /\ prev.status = 200
    /\ resp.proc = prev.proc
    /\ resp.read
    /\ prev.observed # {}
    /\ resp.observed # prev.observed
    /\ BodyIds(prev) = prev.observed
    /\ BodyIds(resp) = resp.observed

\* C10: home does not look at the request: a request for "/" with any
\* method is answered with index.html rendered with all stored rows under
\* "images", the same as for every other method, and changes nothing.
C10_HomeIgnoresMethod ==
    /\ (WasServed(resp) /\ resp.path = RootPath) =>
        /\ resp.view = "home"
        /\ resp.status = 200
        /\ resp.template = "index.html"
        /\ Range(resp.context) = resp.observed
        /\ ~resp.wrote
    /\ (WasServed(resp) /\ WasServed(prev) /\ resp.path = RootPath
          /\ prev.path = RootPath /\ resp.observed = prev.observed) =>
        /\ resp.status = prev.status
        /\ resp.template = prev.template
        /\ resp.context = prev.context

C10_Witness ==
    /\ resp.path = RootPath /\ resp.method = "POST" /\ resp.status = 200
    /\ prev.path = RootPath /\ prev.method = "GET" /\ prev.status = 200
    /\ resp.observed = prev.observed /\ resp.observed # {}
    /\ resp.context = prev.context
    /\ ~resp.wrote

===========================================================================
